---------------------------- MODULE Spec2Model ----------------------------
(***************************************************************************)
(* A model of the media-downloader HTTP service.  The repository holds     *)
(* three revisions of the same server:                                     *)
(*   "A"  src/server.js lines 1-452    (SnapSave / SnapTik scraping first) *)
(*   "B"  src/server.js lines 453-756  (OAuth metadata provider)           *)
(*   "C"  src/unnamed/part_000         (recursive redirects, preview proxy)*)
(* Strings the code inspects character by character (file names) are      *)
(* sequences of Unicode code points; strings it only compares or passes on *)
(* are TLA+ strings.                                                       *)
(***************************************************************************)
EXTENDS Integers, Sequences, FiniteSets, TLC

VARIABLES
  rev,          \* the revision of the server that is running
  req,          \* /api/download: request id -> handler state
  fs,           \* the paths that exist in DOWNLOADS_DIR
  net,          \* resolveRedirect: what a HEAD of each URL answers
  rr,           \* resolveRedirect: the call in progress and its caller
  vi,           \* /api/video-info: the handler state of the request in progress
  credentials,  \* revision B: the credentials held by the shared oauth2Client
  oa,           \* revision B: /oauth2callback request in progress
  sp            \* part_000: /api/stream-preview: request id -> handler state

vars == <<rev, req, fs, net, rr, vi, credentials, oa, sp>>

Revs == {"A", "B", "C"}

(***************************************************************************)
(* sanitizeFilename                                                        *)
(***************************************************************************)
MaxNameLen == 150

\* [<>:"/\\|?*\x00-\x1F]
IsForbidden(c) == c \in {60, 62, 58, 34, 47, 92, 124, 63, 42} \/ (c >= 0 /\ c <= 31)

\* The emoji ranges each revision deletes.
IsEmoji(v, c) ==
  IF v = "A"
  THEN \/ (c >= 128512 /\ c <= 128591)    \* 1F600-1F64F
       \/ (c >= 127744 /\ c <= 128511)    \* 1F300-1F5FF
       \/ (c >= 128640 /\ c <= 128767)    \* 1F680-1F6FF
       \/ (c >= 9728 /\ c <= 9983)        \* 2600-26FF
       \/ (c >= 9984 /\ c <= 10175)       \* 2700-27BF
       \/ (c >= 129280 /\ c <= 129535)    \* 1F900-1F9FF
  ELSE \/ (c >= 128512 /\ c <= 128767)    \* 1F600-1F6FF
       \/ (c >= 9728 /\ c <= 10175)       \* 2600-27BF

\* \s of a JavaScript regular expression
IsSpace(c) ==
  \/ c \in {9, 10, 11, 12, 13, 32, 160, 5760, 8232, 8233, 8239, 8287, 12288, 65279}
  \/ (c >= 8192 /\ c <= 8202)

ReplaceForbidden(s) ==
  [i \in 1..Len(s) |-> IF IsForbidden(s[i]) THEN 95 ELSE s[i]]

StripEmoji(v, s) == SelectSeq(s, LAMBDA c : ~IsEmoji(v, c))

\* .replace(/\s+/g, '_'): every maximal run of white space becomes one '_';
\* -1 marks the white space behind the first of a run
CollapseSpace(s, inRun) ==
  LET behind(i) == IF i = 1 THEN inRun ELSE IsSpace(s[i - 1])
      marked == [i \in 1..Len(s) |->
                   IF ~IsSpace(s[i]) THEN s[i] ELSE IF behind(i) THEN -1 ELSE 95]
  IN SelectSeq(marked, LAMBDA c : c # -1)

\* .replace(/\.(mp3|mp4)$/i, ''): one trailing extension, any letter case
StripExt(s) ==
  LET n == Len(s) IN
  IF /\ n >= 4
     /\ s[n - 3] = 46
     /\ s[n - 2] \in {109, 77}
     /\ s[n - 1] \in {112, 80}
     /\ s[n] \in {51, 52}
  THEN SubSeq(s, 1, n - 4)
  ELSE s

\* a code point above U+FFFF takes two UTF-16 code units, a high and a low
\* surrogate; any other code point takes one
HighSurrogate(c) == 55296 + ((c - 65536) \div 1024)
IsSurrogate(c) == c >= 55296 /\ c <= 57343

\* String.prototype.substring(0, n) counts code units: a pair that straddles
\* position n is cut, and its high surrogate stays
UnitsBefore(s, i) == (i - 1) + Cardinality({j \in 1..(i - 1) : s[j] >= 65536})

Substring(s, n) ==
  LET kept == Cardinality({i \in 1..Len(s) : UnitsBefore(s, i) < n})
  IN [i \in 1..kept |->
        IF s[i] >= 65536 /\ UnitsBefore(s, i) = n - 1 THEN HighSurrogate(s[i])
        ELSE s[i]]

Substring150(s) == Substring(s, MaxNameLen)

sanitizeFilename(v, filename) ==
  Substring150(StripExt(CollapseSpace(StripEmoji(v, ReplaceForbidden(filename)), FALSE)))

ExtOf(type) == IF type = "audio" THEN <<46, 109, 112, 51>> ELSE <<46, 109, 112, 52>>

DOWNLOADS_DIR == "/tmp/downloads"

\* an output path built from the file name as the client sent it
outputFilePathRaw(v, filename, type) ==
  [dir |-> DOWNLOADS_DIR, base |-> filename \o ExtOf(type)]

\* path.join(DOWNLOADS_DIR, `${sanitizedFilename}.${type === 'audio' ? 'mp3' : 'mp4'}`)
outputFilePath(v, filename, type) ==
  [dir |-> DOWNLOADS_DIR, base |-> sanitizeFilename(v, filename) \o ExtOf(type)]

NoPath == [dir |-> "", base |-> <<>>]

(***************************************************************************)
(* URL classification                                                      *)
(***************************************************************************)
UrlYT == "https://www.youtube.com/watch?v=abc"
UrlTT == "https://vt.tiktok.com/ZS1/"
UrlOther == "https://example.com/clip"

\* /^(https?:\/\/)?(www\.)?(youtube\.com|youtu\.be)\/.+/ on the sample URLs
isYouTubeUrl(url) == url \in {UrlYT}

\* /^(https?:\/\/)?(www\.)?(tiktok\.com|vt\.tiktok\.com)\/.+/ on the sample URLs
isTikTokUrl(url) == url \in {UrlTT}


(***************************************************************************)
(* encodeURIComponent, on code points                                      *)
(***************************************************************************)
IsUnreserved(c) ==
  \/ (c >= 65 /\ c <= 90) \/ (c >= 97 /\ c <= 122) \/ (c >= 48 /\ c <= 57)
  \/ c \in {45, 95, 46, 33, 126, 42, 39, 40, 41}

HexDigit(n) == IF n < 10 THEN 48 + n ELSE 55 + n

PercentByte(b) == <<37, HexDigit(b \div 16), HexDigit(b % 16)>>

Utf8(c) ==
  IF c < 128 THEN <<c>>
  ELSE IF c < 2048 THEN <<192 + (c \div 64), 128 + (c % 64)>>
  ELSE IF c < 65536
       THEN <<224 + (c \div 4096), 128 + ((c \div 64) % 64), 128 + (c % 64)>>
       ELSE <<240 + (c \div 262144), 128 + ((c \div 4096) % 64),
              128 + ((c \div 64) % 64), 128 + (c % 64)>>

RECURSIVE PercentAll(_)
PercentAll(bytes) ==
  IF bytes = <<>> THEN <<>> ELSE PercentByte(Head(bytes)) \o PercentAll(Tail(bytes))

\* encodeURIComponent throws URIError on a surrogate that is not part of a pair
URIError(s) == \E i \in 1..Len(s) : IsSurrogate(s[i])

RECURSIVE encodeURIComponent(_)
encodeURIComponent(s) ==
  IF s = <<>> THEN <<>>
  ELSE IF Len(s) = 1
       THEN (IF IsUnreserved(s[1]) THEN s ELSE PercentAll(Utf8(s[1])))
       ELSE LET half == Len(s) \div 2
            IN encodeURIComponent(SubSeq(s, 1, half))
                 \o encodeURIComponent(SubSeq(s, half + 1, Len(s)))

(***************************************************************************)
(* The HTTP response object (Express on Node's ServerResponse)             *)
(***************************************************************************)
NoDisposition == [kind |-> "", name |-> <<>>, ext |-> <<>>]

FreshRes ==
  [status |-> 200, headersSent |-> FALSE, finished |-> FALSE, body |-> "none",
   ctype |-> "", cdisp |-> NoDisposition, clen |-> FALSE]

\* res.status(code).json(obj) where nothing has been written yet; res.json
\* keeps a Content-Type that is already set
SendJson(res, code) ==
  [res EXCEPT !.status = code, !.headersSent = TRUE, !.finished = TRUE,
              !.body = "json", !.ctype = IF @ = "" THEN "application/json" ELSE @]

\* the Content-Type of a download
MediaType(type) == IF type = "audio" THEN "audio/mpeg" ELSE "video/mp4"

\* the template of the Content-Disposition value throws
DispositionThrows(v, b) == URIError(sanitizeFilename(v, b.filename))

\* headers that name every download '.mp4'
SetDownloadHeadersMp4Only(res, v, b, withLength) ==
  [res EXCEPT
     !.ctype = MediaType(b.type),
     !.cdisp = IF DispositionThrows(v, b) THEN @
               ELSE [kind |-> "attachment",
                     name |-> encodeURIComponent(sanitizeFilename(v, b.filename)),
                     ext |-> ExtOf("video")],
     !.clen = IF withLength THEN TRUE ELSE @]

\* res.setHeader('Content-Type', ...); res.setHeader('Content-Disposition', ...);
\* when the template of the second throws, the first has been set
SetDownloadHeaders(res, v, b, withLength) ==
  [res EXCEPT
     !.ctype = MediaType(b.type),
     !.cdisp = IF DispositionThrows(v, b) THEN @
               ELSE [kind |-> "attachment",
                     name |-> encodeURIComponent(sanitizeFilename(v, b.filename)),
                     ext |-> ExtOf(b.type)],
     !.clen = IF withLength THEN TRUE ELSE @]

\* a chunk written into the response by a piped stream
WriteChunk(res) ==
  IF res.finished THEN res
  ELSE [res EXCEPT !.headersSent = TRUE, !.body = "stream"]

\* res.end() called by a piped stream that reached its end
EndByPipe(res) ==
  IF res.finished THEN res
  ELSE [res EXCEPT !.headersSent = TRUE, !.finished = TRUE, !.body = "stream"]

(***************************************************************************)
(* The scraping providers (revision A)                                     *)
(***************************************************************************)
MaxRows == 2

QualityTexts == {"", "720p", "Audio 128kbps"}
Hrefs == {"", "https://cdn.example/v.mp4", "https://cdn.example/a.mp3"}

\* quality.includes('Audio') on the sample texts
IncludesAudio(q) == q \in {"Audio 128kbps"}
\* downloadUrl.includes('.mp4') on the sample links
IncludesMp4(h) == h \in {"https://cdn.example/v.mp4"}

Rows == {[quality |-> "720p", size |-> "10 MB", href |-> "https://cdn.example/v.mp4"],
         [quality |-> "Audio 128kbps", size |-> "", href |-> "https://cdn.example/a.mp3"],
         [quality |-> "", size |-> "", href |-> "https://cdn.example/v.mp4"],
         [quality |-> "360p", size |-> "4 MB", href |-> ""]}

RowLists == UNION {[1..n -> Rows] : n \in 0..MaxRows}

\* what the scraping target answers: a page, or nothing (the POST fails)
Pages ==
  [ok : {TRUE}, title : {"", "Clip"}, thumb : {"", "https://img.example/t.jpg"},
   duration : {"", "00:03:25"}, rows : RowLists]

PageMeta(p) == <<p.title, p.thumb, p.duration>>

\* pages whose title, thumbnail and duration are all present or all absent
SamplePages ==
  {p \in Pages : PageMeta(p) \in {<<"", "", "">>,
                                  <<"Clip", "https://img.example/t.jpg", "00:03:25">>}}

FailedPage == [ok |-> FALSE, title |-> "", thumb |-> "", duration |-> "", rows |-> <<>>]

ScrapeAnswers == SamplePages \cup {FailedPage}

Or(text, dflt) == IF text = "" THEN dflt ELSE text

SnapSaveEntry(row) ==
  LET quality == Or(row.quality, "Unknown")
      type == IF IncludesAudio(quality) THEN "audio" ELSE "video"
  IN [quality |-> IF IncludesAudio(quality) THEN "Best Audio" ELSE quality,
      format |-> IF type = "audio" THEN "MP3" ELSE "MP4",
      size |-> Or(row.size, "Unknown Size"),
      url |-> row.href,
      type |-> type]

RECURSIVE SnapSaveFormats(_)
SnapSaveFormats(rows) ==
  IF rows = <<>> THEN <<>>
  ELSE (IF Head(rows).href # "" THEN <<SnapSaveEntry(Head(rows))>> ELSE <<>>)
       \o SnapSaveFormats(Tail(rows))

RECURSIVE SnapTikFormats(_)
SnapTikFormats(rows) ==
  IF rows = <<>> THEN <<>>
  ELSE (IF Head(rows).href # "" /\ IncludesMp4(Head(rows).href)
        THEN <<SnapSaveEntry(Head(rows))>> ELSE <<>>)
       \o SnapTikFormats(Tail(rows))

ScrapedFormats(provider, page) ==
  IF provider = "snapsave" THEN SnapSaveFormats(page.rows) ELSE SnapTikFormats(page.rows)

\* getSnapSaveVideoInfo / getSnapTikVideoInfo throw when the POST fails or when
\* the page holds no download link
ScrapeThrows(provider, page) == ~page.ok \/ ScrapedFormats(provider, page) = <<>>

\* formats.find(f => f.type === type && f.quality === quality) finds something
HasMatch(formats, type, quality) ==
  \E i \in 1..Len(formats) : formats[i].type = type /\ formats[i].quality = quality

(***************************************************************************)
(* POST /api/download                                                      *)
(***************************************************************************)
NumReqs == 2
Reqs == 1..NumReqs

NameSpaced == <<97, 32, 98>>                    \* "a b"
NameUnderscore == <<97, 95, 98>>                \* "a_b"
NameWithExt == <<99, 63, 46, 77, 80, 52>>       \* "c?.MP4"
NameHalfPair == <<100, 55357>>                  \* "d" and a lone high surrogate
Filenames == {NameSpaced, NameUnderscore, NameWithExt, NameHalfPair}

\* request bodies; "" and <<>> stand for a field that is missing
Bodies ==
  [url : {"", UrlYT, UrlTT, UrlOther}, platform : {"", "youtube", "tiktok"},
   filename : Filenames \cup {<<>>}, type : {"", "audio", "video"},
   quality : {"", "720p", "Best Audio"}]

\* the bodies of the requests that run concurrently
RaceBodies ==
  {b \in Bodies : /\ b.url = UrlOther /\ b.platform = "" /\ b.quality = "720p"
                  /\ \/ b.filename \in {NameSpaced, NameUnderscore} /\ b.type = "video"
                     \/ b.filename = NameSpaced /\ b.type = "audio"}

EmptyBody == [url |-> "", platform |-> "", filename |-> <<>>, type |-> "", quality |-> ""]

IdleReq ==
  [pc |-> "idle", body |-> EmptyBody, provider |-> "", path |-> NoPath,
   res |-> FreshRes, pipes |-> {}, tried |-> <<>>, wrote |-> FALSE,
   exec |-> "none", streamEnded |-> FALSE, unlinked |-> FALSE,
   uncaught |-> FALSE, writeAfterEnd |-> FALSE, caught |-> {}, nomatch |-> {}]

\* a validation that forgets quality
MissingFieldButQuality(b) == b.url = "" \/ b.filename = <<>> \/ b.type = ""

\* !url || !filename || !type || !quality
MissingField(b) == b.url = "" \/ b.filename = <<>> \/ b.type = "" \/ b.quality = ""

\* res.status(code).json(...): Express sets headers, which throws once the
\* headers are on the wire; thrown from a catch block or an event listener the
\* error escapes the handler.  res.status is the status on the wire.
JsonOrThrow(q, code) ==
  IF q.res.headersSent THEN [q EXCEPT !.uncaught = TRUE]
  ELSE [q EXCEPT !.res = SendJson(@, code)]

\* the yt-dlp fallback: the command is built and the subprocess started
ToExtractor(q) ==
  [q EXCEPT !.pc = "exec", !.provider = "ytdlp", !.tried = Append(@, "ytdlp"),
            !.path = outputFilePath(rev, q.body.filename, q.body.type)]

StartProvider(q, provider) ==
  [q EXCEPT !.pc = "scrape", !.provider = provider, !.tried = Append(@, provider)]

\* if (platform === 'tiktok' || isTikTokUrl(url)) { ... }
ToSnapTik(q) ==
  IF rev = "A" /\ (q.body.platform = "tiktok" \/ isTikTokUrl(q.body.url))
  THEN StartProvider(q, "snaptik")
  ELSE ToExtractor(q)

\* if (platform === 'youtube' || isYouTubeUrl(url)) { ... }
ToSnapSave(q) ==
  IF rev = "A" /\ (q.body.platform = "youtube" \/ isYouTubeUrl(q.body.url))
  THEN StartProvider(q, "snapsave")
  ELSE ToSnapTik(q)

\* where the handler goes on when a scraping branch is left without a return
AfterProvider(q) == IF q.provider = "snapsave" THEN ToSnapTik(q) ELSE ToExtractor(q)

\* the catch block of a scraping branch: it logs, and the handler goes on
Caught(q) == AfterProvider([q EXCEPT !.caught = @ \cup {q.provider}])

Receive(r, b) ==
  /\ req[r].pc = "idle"
  /\ \A s \in Reqs : s < r => req[s].pc # "idle"
  /\ LET q == [IdleReq EXCEPT !.body = b]
     IN req' = [req EXCEPT ![r] =
                  IF MissingField(b)
                  THEN [q EXCEPT !.res = SendJson(@, 400), !.pc = "done"]
                  ELSE ToSnapSave(q)]
  /\ UNCHANGED <<rev, fs, net, rr, vi, credentials, oa, sp>>

\* await getSnapSaveVideoInfo(url) / getSnapTikVideoInfo(url) settles
ScrapeDone(r, page) ==
  /\ req[r].pc = "scrape"
  /\ LET q == req[r]
         formats == ScrapedFormats(q.provider, page)
     IN req' = [req EXCEPT ![r] =
          IF ScrapeThrows(q.provider, page) THEN Caught(q)
          ELSE IF ~HasMatch(formats, q.body.type, q.body.quality)
               THEN \* return res.status(400).json(...), inside the try block
                    LET n == [q EXCEPT !.nomatch = @ \cup {q.provider}]
                    IN IF q.res.headersSent THEN Caught(n)
                       ELSE [n EXCEPT !.res = SendJson(@, 400), !.pc = "done"]
               ELSE [q EXCEPT !.pc = "fetch"]]
  /\ UNCHANGED <<rev, fs, net, rr, vi, credentials, oa, sp>>

\* await axios({ url: format.url, responseType: 'stream' }) settles; on success
\* the headers are set and the upstream body is piped, and the handler goes on
FetchDone(r, ok) ==
  /\ req[r].pc = "fetch"
  /\ LET q == req[r]
     IN req' = [req EXCEPT ![r] =
          IF ~ok \/ q.res.headersSent THEN Caught(q)
          ELSE IF DispositionThrows(rev, q.body)
          THEN Caught([q EXCEPT !.res = SetDownloadHeaders(@, rev, q.body, FALSE)])
          ELSE AfterProvider([q EXCEPT
                 !.res = SetDownloadHeaders(@, rev, q.body, FALSE),
                 !.pipes = @ \cup {q.provider}])]
  /\ UNCHANGED <<rev, fs, net, rr, vi, credentials, oa, sp>>

\* the upstream body piped by a scraping branch delivers a chunk
UpstreamData(r, p) ==
  /\ p \in req[r].pipes \ {"file"}
  /\ LET q == req[r]
     IN /\ ~q.res.headersSent \/ (q.res.finished /\ ~q.writeAfterEnd)
        /\ req' = [req EXCEPT ![r] =
                     [q EXCEPT !.res = WriteChunk(@),
                               !.writeAfterEnd = @ \/ q.res.finished]]
  /\ UNCHANGED <<rev, fs, net, rr, vi, credentials, oa, sp>>

\* the upstream body reaches its end: pipe() ends the response
UpstreamEnd(r, p) ==
  /\ p \in req[r].pipes \ {"file"}
  /\ req' = [req EXCEPT ![r] = [@ EXCEPT !.res = EndByPipe(@), !.pipes = @ \ {p}]]
  /\ UNCHANGED <<rev, fs, net, rr, vi, credentials, oa, sp>>

\* the extractor subprocess writes the output file (it replaces what is there)
ExecWrite(r) ==
  /\ req[r].pc = "exec"
  /\ ~req[r].wrote
  /\ fs' = fs \cup {req[r].path}
  /\ req' = [req EXCEPT ![r] = [@ EXCEPT !.wrote = TRUE]]
  /\ UNCHANGED <<rev, net, rr, vi, credentials, oa, sp>>

\* a handler that calls fs.unlink right after fileStream.pipe(res)
AfterExecUnlinkEarly(q) ==
  IF q.path \notin fs \/ q.res.headersSent
  THEN [JsonOrThrow(q, 500) EXCEPT !.pc = "done"]
  ELSE IF DispositionThrows(rev, q.body)
  THEN [JsonOrThrow([q EXCEPT !.res = SetDownloadHeaders(@, rev, q.body, TRUE)], 500)
          EXCEPT !.pc = "done"]
  ELSE [q EXCEPT !.res = SetDownloadHeaders(@, rev, q.body, TRUE),
                 !.pipes = @ \cup {"file"}, !.pc = "unlinking"]

\* the code after `await execAsync(command)` up to the end of the try block
AfterExec(q) ==
  IF q.path \notin fs
  THEN \* fs.statSync throws ENOENT: caught
       [JsonOrThrow(q, 500) EXCEPT !.pc = "done"]
  ELSE IF q.res.headersSent
       THEN \* res.setHeader throws ERR_HTTP_HEADERS_SENT: caught
            [JsonOrThrow(q, 500) EXCEPT !.pc = "done"]
       ELSE IF DispositionThrows(rev, q.body)
       THEN \* URIError after Content-Length and Content-Type are set: caught
            [JsonOrThrow([q EXCEPT !.res = SetDownloadHeaders(@, rev, q.body, TRUE)], 500)
               EXCEPT !.pc = "done"]
       ELSE [q EXCEPT !.res = SetDownloadHeaders(@, rev, q.body, TRUE),
                      !.pipes = @ \cup {"file"}, !.pc = "opening"]

\* the extractor subprocess exits; a zero exit follows the write of the file
ExecExit(r, ok) ==
  /\ req[r].pc = "exec"
  /\ ok => req[r].wrote
  /\ LET q == [req[r] EXCEPT !.exec = IF ok THEN "ok" ELSE "failed"]
     IN req' = [req EXCEPT ![r] =
                  IF ok THEN AfterExec(q)
                  ELSE [JsonOrThrow(q, 500) EXCEPT !.pc = "done"]]
  /\ UNCHANGED <<rev, fs, net, rr, vi, credentials, oa, sp>>

\* the read stream opens the file, or emits 'error' when it is not there
StreamOpen(r) ==
  /\ req[r].pc = "opening"
  /\ LET q == req[r]
     IN req' = [req EXCEPT ![r] =
                  IF q.path \in fs THEN [q EXCEPT !.pc = "reading"]
                  ELSE [JsonOrThrow(q, 500) EXCEPT !.pc = "done", !.pipes = @ \ {"file"}]]
  /\ UNCHANGED <<rev, fs, net, rr, vi, credentials, oa, sp>>

\* fileStream.pipe(res) delivers a chunk
FileData(r) ==
  /\ req[r].pc = "reading"
  /\ LET q == req[r]
     IN /\ ~q.res.headersSent \/ (q.res.finished /\ ~q.writeAfterEnd)
        /\ req' = [req EXCEPT ![r] =
                     [q EXCEPT !.res = WriteChunk(@),
                               !.writeAfterEnd = @ \/ q.res.finished]]
  /\ UNCHANGED <<rev, fs, net, rr, vi, credentials, oa, sp>>

\* fileStream 'end': pipe() ends the response and the listener calls fs.unlink
FileEnd(r) ==
  /\ req[r].pc = "reading"
  /\ req' = [req EXCEPT ![r] =
               [@ EXCEPT !.res = EndByPipe(@), !.pipes = @ \ {"file"},
                         !.streamEnded = TRUE, !.pc = "unlinking"]]
  /\ UNCHANGED <<rev, fs, net, rr, vi, credentials, oa, sp>>

\* fileStream 'error' while reading: the listener answers 500
FileError(r) ==
  /\ req[r].pc = "reading"
  /\ req' = [req EXCEPT ![r] =
               [JsonOrThrow(@, 500) EXCEPT !.pc = "done", !.pipes = @ \ {"file"}]]
  /\ UNCHANGED <<rev, fs, net, rr, vi, credentials, oa, sp>>

\* the client closes the connection: the pipe stops and 'end' is never emitted
ClientAbort(r) ==
  /\ req[r].pc \in {"opening", "reading"}
  /\ req' = [req EXCEPT ![r] = [@ EXCEPT !.pc = "aborted", !.pipes = {}]]
  /\ UNCHANGED <<rev, fs, net, rr, vi, credentials, oa, sp>>

\* fs.unlink(outputFilePath, () => {}) completes
Unlink(r) ==
  /\ req[r].pc = "unlinking"
  /\ fs' = fs \ {req[r].path}
  /\ req' = [req EXCEPT ![r] = [@ EXCEPT !.unlinked = TRUE, !.pc = "done"]]
  /\ UNCHANGED <<rev, net, rr, vi, credentials, oa, sp>>

(***************************************************************************)
(* POST /api/video-info: the envelope built from the extractor's output    *)
(* A number the extractor leaves out is null, and counts as 0 wherever the *)
(* code reads it; a string it leaves out is Undefined.                     *)
(***************************************************************************)
Undefined == "(undefined)"

Truthy(x) == x \notin {"", Undefined}

\* a || b on strings
OrElse(a, b) == IF Truthy(a) THEN a ELSE b

Pad2(n) == IF n < 10 THEN "0" \o ToString(n) ELSE ToString(n)

\* (num / den).toFixed(2) + 'MB'
Fixed2MB(num, den) ==
  LET h == (200 * (num % den) + den) \div (2 * den)
  IN ToString(num \div den + h \div 100) \o "." \o Pad2(h % 100) \o "MB"

\* (filesize / (1024 * 1024)).toFixed(2) + 'MB'
ExactSize(filesize) == Fixed2MB(filesize, 1024 * 1024)

\* estimateFileSize(bitrateKbps, durationSeconds)
\* (bits / 8 / (1024 * 1024)).toFixed(2) + 'MB', with 1000 / 8 taken as 125
estimateFileSize(bitrateKbps, durationSeconds) ==
  Fixed2MB(bitrateKbps * 125 * durationSeconds, 1024 * 1024)

\* new Date(duration * 1000).toISOString().substr(11, 8)
IsoTime(duration) ==
  Pad2((duration \div 3600) % 24) \o ":" \o Pad2((duration \div 60) % 60)
    \o ":" \o Pad2(duration % 60)

\* duration ? new Date(duration * 1000).toISOString().substr(11, 8) : '00:00:00'
DurationText(duration) == IF duration # 0 THEN IsoTime(duration) ELSE "00:00:00"

DirectUrl == "https://cdn.example/v.mp4"
HlsUrl == "https://cdn.example/v.m3u8"

\* f.url.includes('.m3u8') on the sample URLs
IncludesM3u8(u) == u \in {HlsUrl}
\* f.protocol?.includes('http') on the sample protocols
IncludesHttp(p) == p \in {"https", "http"}
\* encodeURIComponent on the sample URLs
EncodedUrl(u) ==
  IF u = DirectUrl THEN "https%3A%2F%2Fcdn.example%2Fv.mp4"
  ELSE IF u = HlsUrl THEN "https%3A%2F%2Fcdn.example%2Fv.m3u8"
  ELSE u

\* the comparators handed to Array.prototype.sort
CmpHeight(a, b) == b.height - a.height

\* a comparator that orders the audio candidates by bit rate alone
CmpAudioNoTieBreak(a, b) == b.abr - a.abr

\* (b.abr || 0) - (a.abr || 0) || (b.filesize || 0) - (a.filesize || 0)
CmpAudio(a, b) ==
  IF b.abr - a.abr # 0 THEN b.abr - a.abr ELSE b.filesize - a.filesize

Cmp(mode, a, b) == IF mode = "audio" THEN CmpAudio(a, b) ELSE CmpHeight(a, b)

\* Array.prototype.sort is stable: x goes behind every element that does not
\* compare after it
RECURSIVE InsertSorted(_, _, _)
InsertSorted(mode, x, sorted) ==
  IF sorted = <<>> THEN <<x>>
  ELSE IF Cmp(mode, Head(sorted), x) <= 0
       THEN <<Head(sorted)>> \o InsertSorted(mode, x, Tail(sorted))
       ELSE <<x>> \o sorted

RECURSIVE SortBy(_, _)
SortBy(mode, seq) ==
  IF seq = <<>> THEN <<>>
  ELSE InsertSorted(mode, seq[Len(seq)], SortBy(mode, SubSeq(seq, 1, Len(seq) - 1)))

\* the filter of the video formats
VideoFilter(v, f) ==
  IF v = "C"
  THEN f.vcodec # "none" /\ f.acodec # "none" /\ f.ext = "mp4" /\ f.height # 0
  ELSE f.vcodec # "none" /\ f.height # 0

\* the filter of the audio candidates
AudioFilter(v, f) ==
  IF v = "C" THEN f.acodec # "none" /\ f.ext = "m4a" ELSE f.acodec # "none"

RECURSIVE FilterVideo(_, _)
FilterVideo(v, seq) ==
  IF seq = <<>> THEN <<>>
  ELSE (IF VideoFilter(v, Head(seq)) THEN <<Head(seq)>> ELSE <<>>)
       \o FilterVideo(v, Tail(seq))

RECURSIVE FilterAudio(_, _)
FilterAudio(v, seq) ==
  IF seq = <<>> THEN <<>>
  ELSE (IF AudioFilter(v, Head(seq)) THEN <<Head(seq)>> ELSE <<>>)
       \o FilterAudio(v, Tail(seq))

QualityOf(height) == ToString(height) \o "p"

VideoSize(v, f, duration) ==
  IF f.filesize # 0 THEN ExactSize(f.filesize)
  ELSE IF v = "C"
       THEN estimateFileSize(IF f.tbr # 0 THEN f.tbr ELSE 128, duration)
       ELSE IF f.tbr # 0 /\ duration # 0 THEN estimateFileSize(f.tbr, duration)
            ELSE "Unknown Size"

AudioSize(v, f, duration) ==
  IF f.filesize # 0 THEN ExactSize(f.filesize)
  ELSE IF v = "C"
       THEN estimateFileSize(IF f.abr # 0 THEN f.abr ELSE 128, duration)
       ELSE IF f.abr # 0 /\ duration # 0 THEN estimateFileSize(f.abr, duration)
            ELSE "Unknown Size"

\* a forEach that never looks into videoQualities
RECURSIVE PushVideoNoDedupe(_, _, _, _, _)
PushVideoNoDedupe(v, sorted, videoQualities, duration, entryUrl) ==
  IF sorted = <<>> THEN <<>>
  ELSE <<[quality |-> QualityOf(Head(sorted).height), format |-> "MP4",
          size |-> VideoSize(v, Head(sorted), duration), url |-> entryUrl,
          type |-> "video"]>>
       \o PushVideoNoDedupe(v, Tail(sorted), videoQualities, duration, entryUrl)

\* the forEach over the sorted video formats: one entry for each new quality
RECURSIVE PushVideo(_, _, _, _, _)
PushVideo(v, sorted, videoQualities, duration, entryUrl) ==
  IF sorted = <<>> THEN <<>>
  ELSE LET f == Head(sorted)
           quality == QualityOf(f.height)
       IN IF quality \in videoQualities
          THEN PushVideo(v, Tail(sorted), videoQualities, duration, entryUrl)
          ELSE <<[quality |-> quality, format |-> "MP4",
                  size |-> VideoSize(v, f, duration), url |-> entryUrl,
                  type |-> "video"]>>
               \o PushVideo(v, Tail(sorted), videoQualities \cup {quality},
                            duration, entryUrl)

VideoEntries(v, data, url) ==
  PushVideo(v, SortBy("height", FilterVideo(v, data.formats)), {}, data.duration,
            OrElse(data.webpage_url, url))

\* the audio candidates, best first: bestAudio is the head, if there is one
BestAudio(v, data) == SortBy("audio", FilterAudio(v, data.formats))

AudioEntries(v, data, url) ==
  LET sorted == BestAudio(v, data)
  IN IF sorted = <<>> THEN <<>>
     ELSE <<[quality |-> "Best Audio", format |-> "MP3",
             size |-> AudioSize(v, Head(sorted), data.duration),
             url |-> OrElse(data.webpage_url, url), type |-> "audio"]>>

\* the formats array of the response
EnvelopeFormats(v, data, url) == VideoEntries(v, data, url) \o AudioEntries(v, data, url)

\* rev. A: the best direct MP4 stream, for the preview
PreviewFilterA(f) ==
  /\ f.vcodec # "none" /\ Truthy(f.url) /\ f.ext = "mp4"
  /\ f.protocol \in {"https", "http"} /\ ~IncludesM3u8(f.url)

RECURSIVE FilterPreviewA(_)
FilterPreviewA(seq) ==
  IF seq = <<>> THEN <<>>
  ELSE (IF PreviewFilterA(Head(seq)) THEN <<Head(seq)>> ELSE <<>>)
       \o FilterPreviewA(Tail(seq))

\* bestVideoFormat?.url || data.webpage_url || url
PreviewUrlA(data, url) ==
  LET best == SortBy("height", FilterPreviewA(data.formats))
  IN OrElse(IF best = <<>> THEN Undefined ELSE Head(best).url,
            OrElse(data.webpage_url, url))

\* rev. B, C: data.formats.find(...) of a low MP4 stream with sound; a null
\* height compares as 0
PreviewFilter(v, f) ==
  /\ f.vcodec # "none" /\ f.acodec # "none" /\ f.ext = "mp4" /\ f.height <= 360
  /\ (v = "C" => (Truthy(f.url) /\ IncludesHttp(f.protocol)))

RECURSIVE FindPreview(_, _)
FindPreview(v, seq) ==
  IF seq = <<>> THEN <<>>
  ELSE IF PreviewFilter(v, Head(seq)) THEN <<Head(seq)>>
       ELSE FindPreview(v, Tail(seq))

\* rev. C: `/api/stream-preview?url=${encodeURIComponent(previewFormat.url)}` or ''
PreviewUrlC(data) ==
  LET found == FindPreview("C", data.formats)
  IN IF found = <<>> THEN ""
     ELSE "/api/stream-preview?url=" \o EncodedUrl(found[1].url)

\* rev. B: previewUrl || data.thumbnail
PreviewUrlB(data, previewUrl) == OrElse(previewUrl, data.thumbnail)

\* validateThumbnail: '' unless the HEAD answers 200 with an image type; the
\* HEAD of no URL fails
validateThumbnail(thumbnailUrl, headOk) ==
  IF ~Truthy(thumbnailUrl) THEN "" ELSE IF headOk THEN thumbnailUrl ELSE ""

\* res.json({...}) of revision A's extractor path
EnvelopeA(data, url, platform, headOk) ==
  [title |-> OrElse(data.title, "Unknown Title"),
   thumbnail |-> validateThumbnail(data.thumbnail, headOk),
   duration |-> DurationText(data.duration),
   formats |-> EnvelopeFormats("A", data, url),
   previewUrl |-> PreviewUrlA(data, url),
   platform |-> platform]

\* res.json({...}) of revision C
EnvelopeC(data, url) ==
  [title |-> OrElse(data.title, "Unknown Title"),
   thumbnail |-> OrElse(data.thumbnail, ""),
   previewUrl |-> PreviewUrlC(data),
   duration |-> DurationText(data.duration),
   formats |-> EnvelopeFormats("C", data, url)]

\* res.json({...}) of revision B; item is videoResponse.data.items[0]
EnvelopeB(data, url, item, previewUrl) ==
  [title |-> OrElse(item.title, OrElse(data.title, "Unknown Title")),
   thumbnail |-> OrElse(item.thumbHigh, OrElse(data.thumbnail, "")),
   previewUrl |-> PreviewUrlB(data, previewUrl),
   duration |-> IF Truthy(item.duration) THEN item.duration
                ELSE DurationText(data.duration),
   formats |-> EnvelopeFormats("B", data, url)]

\* return { title, thumbnail, duration, formats, previewUrl } of a scraper
RECURSIVE FirstVideoUrl(_)
FirstVideoUrl(formats) ==
  IF formats = <<>> THEN Undefined
  ELSE IF Head(formats).type = "video" THEN Head(formats).url
       ELSE FirstVideoUrl(Tail(formats))

ScrapedEnvelope(provider, page, url, headOk) ==
  [title |-> OrElse(page.title, "Unknown Title"),
   thumbnail |-> validateThumbnail(page.thumb, headOk),
   duration |-> OrElse(page.duration, "00:00:00"),
   formats |-> ScrapedFormats(provider, page),
   previewUrl |-> OrElse(FirstVideoUrl(ScrapedFormats(provider, page)), url)]

(***************************************************************************)
(* States of the parts of the server a specification leaves at rest        *)
(***************************************************************************)
NoReqs == [r \in Reqs |-> IdleReq]
NoNet == <<>>
IdleRedirect == [pc |-> "idle", caller |-> "", input |-> 0, cur |-> 0, result |-> 0, hops |-> 0]
NoData ==
  [title |-> Undefined, thumbnail |-> Undefined, webpage_url |-> Undefined,
   duration |-> 0, formats |-> <<>>]
NoItem == [title |-> "", thumbHigh |-> "", duration |-> ""]
NoResponse == [status |-> 0, body |-> [error |-> ""]]
IdleInfo ==
  [pc |-> "idle", url |-> "", platform |-> Undefined, provider |-> "",
   tried |-> <<>>, failed |-> {}, data |-> NoData, item |-> NoItem, auth |-> "",
   sent |-> 0, res |-> NoResponse]
IdleOAuth == [pc |-> "idle", code |-> "", status |-> 0]
\* the credentials set at start-up from the environment
EnvCredentials == "env-token"
NumPreviews == 2
Previews == 1..NumPreviews
IdlePreview ==
  [pc |-> "idle", url |-> Undefined, upstream |-> "none", ctype |-> "",
   streamError |-> FALSE, uncaught |-> FALSE, res |-> FreshRes]
NoPreviews == [p \in Previews |-> IdlePreview]

(***************************************************************************)
(* Specifications of POST /api/download                                    *)
(***************************************************************************)
\* the steps of the scraping branches (revision A)
ScraperStep(r) ==
  \/ \E page \in ScrapeAnswers : ScrapeDone(r, page)
  \/ \E ok \in BOOLEAN : FetchDone(r, ok)
  \/ \E p \in {"snapsave", "snaptik"} : UpstreamData(r, p)
  \/ \E p \in {"snapsave", "snaptik"} : UpstreamEnd(r, p)

\* the steps of the extractor path
ExtractorStep(r) ==
  \/ ExecWrite(r)
  \/ \E ok \in BOOLEAN : ExecExit(r, ok)
  \/ StreamOpen(r)
  \/ FileData(r)
  \/ FileEnd(r)
  \/ FileError(r)
  \/ ClientAbort(r)
  \/ Unlink(r)

Init ==
  /\ rev \in Revs
  /\ req = NoReqs
  /\ fs = {}
  /\ net = NoNet
  /\ rr = IdleRedirect
  /\ vi = IdleInfo
  /\ credentials = EnvCredentials
  /\ oa = IdleOAuth
  /\ sp = NoPreviews

\* concurrent requests for URLs that no scraping branch takes, all revisions
Next ==
  \/ \E r \in Reqs, b \in RaceBodies : Receive(r, b)
  \/ \E r \in Reqs : ExtractorStep(r)

Spec == Init /\ [][Next]_vars

\* one request with any body, all revisions
NextOne ==
  \/ \E b \in Bodies : Receive(1, b)
  \/ ScraperStep(1)
  \/ ExtractorStep(1)

SpecOne == Init /\ [][NextOne]_vars

(***************************************************************************)
(* resolveRedirect and the handlers that await it                          *)
(* URLs are numbered 1..NumUrls; 0 stands for no URL.                      *)
(***************************************************************************)
NumUrls == 3
RUrls == 1..NumUrls

\* what axios.head(url, { maxRedirects: 0, validateStatus: null }) settles with:
\* status 0 stands for a rejected request, location 0 for no Location header
HeadAnswers ==
  {[status |-> 0, location |-> 0], [status |-> 200, location |-> 0],
   [status |-> 302, location |-> 0]}
  \cup {[status |-> 302, location |-> u] : u \in RUrls}

\* response.status >= 300 && response.status < 400 && response.headers.location
IsRedirect(a) == a.status >= 300 /\ a.status < 400 /\ a.location # 0

\* a resolveRedirect that never calls itself
RecursesNever(v) == FALSE

\* part_000 calls itself on the Location; both revisions of server.js return it
Recurses(v) == v = "C"

\* the callers: /api/stream-preview exists in revision C only
Callers(v) == IF v = "C" THEN {"video-info", "stream-preview"} ELSE {"video-info"}

\* the handler calls `await resolveRedirect(url)`; the URL sent is URL 1
RedirectCall(caller) ==
  /\ rr.pc = "idle"
  /\ caller \in Callers(rev)
  /\ rr' = [IdleRedirect EXCEPT !.pc = "resolving", !.caller = caller,
                                !.input = 1, !.cur = 1]
  /\ UNCHANGED <<rev, req, fs, net, vi, credentials, oa, sp>>

\* the HEAD request of the innermost call settles
HeadAnswer ==
  /\ rr.pc = "resolving"
  /\ LET a == net[rr.cur]
     IN rr' = IF IsRedirect(a)
              THEN IF Recurses(rev)
                   THEN [rr EXCEPT !.cur = a.location,
                                   !.hops = IF @ > NumUrls THEN @ ELSE @ + 1]
                   ELSE [rr EXCEPT !.pc = "handling", !.result = a.location]
              ELSE [rr EXCEPT !.pc = "handling", !.result = rr.cur]
  /\ UNCHANGED <<rev, req, fs, net, vi, credentials, oa, sp>>

\* the handler, holding the resolved URL, goes on and answers the request
CallerRespond ==
  /\ rr.pc = "handling"
  /\ rr' = [rr EXCEPT !.pc = "responded"]
  /\ UNCHANGED <<rev, req, fs, net, vi, credentials, oa, sp>>

InitRedirect ==
  /\ rev \in Revs
  /\ req = NoReqs
  /\ fs = {}
  /\ net \in [RUrls -> HeadAnswers]
  /\ rr = IdleRedirect
  /\ vi = IdleInfo
  /\ credentials = EnvCredentials
  /\ oa = IdleOAuth
  /\ sp = NoPreviews

NextRedirect ==
  \/ \E caller \in {"video-info", "stream-preview"} : RedirectCall(caller)
  \/ HeadAnswer
  \/ CallerRespond

\* every HEAD request is answered or fails, and a handler that holds the
\* resolved URL goes on
SpecRedirect ==
  InitRedirect /\ [][NextRedirect]_vars /\ WF_vars(HeadAnswer) /\ WF_vars(CallerRespond)

\* the last URL of the redirect chain that starts at u, 0 when the chain does
\* not end within `fuel` redirects
RECURSIVE ChainEnd(_, _, _)
ChainEnd(n, u, fuel) ==
  IF ~IsRedirect(n[u]) THEN u
  ELSE IF fuel = 0 THEN 0
       ELSE ChainEnd(n, n[u].location, fuel - 1)

\* a chain over NumUrls URLs that is not over after NumUrls redirects is a cycle
FiniteChain(n, u) == ChainEnd(n, u, NumUrls) # 0

\* C6 (as claimed): over a finite chain resolveRedirect returns the last URL
\* of the chain (its input when the first HEAD is no redirect).
C6_ReturnsEndOfChain ==
  (rr.pc \in {"handling", "responded"} /\ FiniteChain(net, rr.input))
    => rr.result = ChainEnd(net, rr.input, NumUrls)

\* what each revision returns: part_000 the end of a finite chain, both
\* revisions of server.js the Location of the first HEAD
RedirectResultPerRevision ==
  rr.pc \in {"handling", "responded"} =>
    IF rev = "C"
    THEN FiniteChain(net, rr.input) /\ rr.result = ChainEnd(net, rr.input, NumUrls)
    ELSE rr.result = IF IsRedirect(net[rr.input]) THEN net[rr.input].location
                     ELSE rr.input

\* C7: resolveRedirect returns whenever the chain is finite; on a cycle the
\* recursive version never returns, and its caller never answers.
C7_TerminatesIffChainFinite ==
  /\ [](  (rev = "C" /\ rr.pc \in {"handling", "responded"})
            => FiniteChain(net, rr.input))
  /\ ((rr.pc = "resolving" /\ FiniteChain(net, rr.input)) ~> (rr.pc = "responded"))

\* C7 witness: the recursive version has gone round a cycle and is still at it
C7_Witness ==
  /\ rev = "C" /\ rr.pc = "resolving"
  /\ ~FiniteChain(net, rr.input)
  /\ rr.hops > NumUrls

(***************************************************************************)
(* Properties of POST /api/download                                        *)
(***************************************************************************)
\* the handler of r is past the validation of the body and on the extractor path
OnExtractorPath(r) == req[r].path # NoPath

\* C1: a request deletes its output file only after its extractor has exited
\* with success and its read stream has emitted 'end'; once the stream has
\* ended the unlink is under way, and it is done when the request is.
C1_DeletedOnlyAfterStreamEnd ==
  \A r \in Reqs :
    /\ req[r].unlinked => (req[r].exec = "ok" /\ req[r].streamEnded)
    /\ req[r].streamEnded => (req[r].pc = "unlinking" \/ req[r].unlinked)
    /\ req[r].pc = "unlinking" => (req[r].exec = "ok" /\ req[r].streamEnded)

\* C1 witness: a request whose stream ended has deleted its file
C1_Witness ==
  \E r \in Reqs :
    /\ req[r].pc = "done" /\ req[r].streamEnded /\ req[r].unlinked
    /\ req[r].exec = "ok" /\ req[r].path \notin fs

\* C2: two requests whose file names sanitize to the same string and whose
\* types map to the same extension use the same output path.
C2_SamePathOnCollision ==
  \A r1, r2 \in Reqs :
    ( /\ OnExtractorPath(r1) /\ OnExtractorPath(r2)
      /\ sanitizeFilename(rev, req[r1].body.filename)
           = sanitizeFilename(rev, req[r2].body.filename)
      /\ ExtOf(req[r1].body.type) = ExtOf(req[r2].body.type) )
    => req[r1].path = req[r2].path

\* C2 witness: requests with different file names share a path, and one has
\* unlinked the file that the other has checked but not yet opened
C2_Witness ==
  \E r1, r2 \in Reqs :
    /\ r1 # r2
    /\ req[r1].body.filename # req[r2].body.filename
    /\ req[r1].path = req[r2].path
    /\ req[r1].unlinked
    /\ req[r2].pc = "opening"
    /\ req[r2].path \notin fs

\* the extractor overwrites the file another request is reading
C2_OverwriteWhileReading ==
  \E r1, r2 \in Reqs :
    /\ r1 # r2 /\ req[r1].path = req[r2].path
    /\ req[r1].pc = "exec" /\ req[r1].wrote
    /\ req[r2].pc = "reading"

\* C4 (as claimed): a failed extractor run of /api/download is answered with
\* HTTP 500 and a JSON body, and no error escapes the handler.
C4_ExtractorFailureAnswered500 ==
  \A r \in Reqs :
    req[r].exec = "failed" =>
      /\ req[r].res.status = 500 /\ req[r].res.body = "json"
      /\ ~req[r].uncaught

(***************************************************************************)
(* POST /api/video-info and GET /oauth2callback                            *)
(* vi is the video-info request at hand, oa the OAuth callback at hand,    *)
(* credentials the credentials held by the shared oauth2Client.            *)
(***************************************************************************)
UrlRelative == "/watch?v=abc"
PageUrl == "https://video.example/page"
ThumbUrl == "https://img.example/t.jpg"

\* new URL(url) throws on a URL without a scheme
ValidUrl(u) == u # UrlRelative

InfoBodies ==
  [url : {"", UrlYT, UrlTT, UrlOther}, platform : {Undefined, "youtube", "tiktok"}]

\* what resolveRedirect may hand back for url: url itself or a Location
ResolvedUrls(url) == {url, UrlYT, UrlRelative}

\* the formats an extractor may list
AudioM4a(abr, filesize) ==
  [vcodec |-> "none", acodec |-> "mp4a", ext |-> "m4a", height |-> 0, abr |-> abr,
   filesize |-> filesize, tbr |-> abr, url |-> DirectUrl, protocol |-> "https"]

MuxedMp4(height, abr, filesize, tbr) ==
  [vcodec |-> "avc1", acodec |-> "mp4a", ext |-> "mp4", height |-> height,
   abr |-> abr, filesize |-> filesize, tbr |-> tbr, url |-> DirectUrl,
   protocol |-> "https"]

FormatPool ==
  { [vcodec |-> "none", acodec |-> "none", ext |-> "mhtml", height |-> 0, abr |-> 0,
     filesize |-> 0, tbr |-> 0, url |-> DirectUrl, protocol |-> "mhtml"],
    AudioM4a(128, 0), AudioM4a(128, 2097152), AudioM4a(0, 3145728),
    [vcodec |-> "none", acodec |-> "opus", ext |-> "webm", height |-> 0, abr |-> 160,
     filesize |-> 0, tbr |-> 160, url |-> DirectUrl, protocol |-> "https"],
    MuxedMp4(360, 96, 0, 500), MuxedMp4(360, 0, 5242880, 0),
    MuxedMp4(720, 0, 10485760, 0), MuxedMp4(0, 0, 0, 0),
    [vcodec |-> "avc1", acodec |-> "none", ext |-> "mp4", height |-> 720, abr |-> 0,
     filesize |-> 0, tbr |-> 1500, url |-> HlsUrl, protocol |-> "m3u8_native"],
    [vcodec |-> "vp9", acodec |-> "none", ext |-> "webm", height |-> 1080, abr |-> 0,
     filesize |-> 0, tbr |-> 0, url |-> DirectUrl, protocol |-> "https"] }

MaxFormats == 3
Durations == {0, 3725}

FormatLists == UNION {[1..n -> FormatPool] : n \in 0..MaxFormats}

\* every output with a title and a thumbnail, over every list of formats
AllData ==
  [title : {"Clip"}, thumbnail : {ThumbUrl}, webpage_url : {Undefined, PageUrl},
   duration : Durations, formats : FormatLists]

SampleFormatLists ==
  { <<>>,
    <<AudioM4a(128, 0)>>,
    <<MuxedMp4(720, 0, 10485760, 0), MuxedMp4(360, 96, 0, 500)>> }

\* outputs with and without each of the optional fields, over a few lists
SampleData ==
  [title : {Undefined, "Clip"}, thumbnail : {Undefined, ThumbUrl},
   webpage_url : {Undefined, PageUrl}, duration : Durations,
   formats : SampleFormatLists]

\* what `await execAsync(command)` and JSON.parse(stdout) come to: the
\* extractor fails, prints no JSON, prints JSON without formats, or prints data
ExecFailures == {[kind |-> "fail", data |-> NoData], [kind |-> "garbage", data |-> NoData],
                 [kind |-> "noformats", data |-> NoData]}
ExecOutputs(datas) == ExecFailures \cup {[kind |-> "json", data |-> d] : d \in datas}

\* videoResponse.data.items[0]; thumbHigh Undefined stands for a snippet
\* without thumbnails.high
ApiItems ==
  { [title |-> "Api Clip", thumbHigh |-> ThumbUrl, duration |-> "PT1H2M5S"],
    [title |-> "", thumbHigh |-> "", duration |-> ""],
    [title |-> "Api Clip", thumbHigh |-> Undefined, duration |-> "PT1H2M5S"] }
ApiAnswers ==
  {[kind |-> "fail", item |-> NoItem], [kind |-> "noitems", item |-> NoItem]}
  \cup {[kind |-> "item", item |-> i] : i \in ApiItems}

Tokens == {"token-1", "token-2"}
RefreshedToken == "refreshed-token"

ErrorBody(v) ==
  IF v = "A" THEN [error |-> "Failed to fetch video info"]
  ELSE [error |-> "Gagal mengambil info video"]

\* res.status(code).json(body), or res.json(body) with code 200
RespondInfo(q, code, body) ==
  [q EXCEPT !.pc = "done", !.sent = @ + 1, !.res = [status |-> code, body |-> body]]

InfoStartProvider(q, provider) ==
  [q EXCEPT !.pc = IF provider = "ytdlp" THEN "exec" ELSE "scrape",
            !.provider = provider, !.tried = Append(@, provider)]

InfoToExtractor(q) == InfoStartProvider(q, "ytdlp")

\* if (platform === 'tiktok' || isTikTokUrl(url))
InfoToSnapTik(q) ==
  IF q.platform = "tiktok" \/ isTikTokUrl(q.url)
  THEN InfoStartProvider(q, "snaptik") ELSE InfoToExtractor(q)

\* if (platform === 'youtube' || isYouTubeUrl(url))
InfoToSnapSave(q) ==
  IF q.platform = "youtube" \/ isYouTubeUrl(q.url)
  THEN InfoStartProvider(q, "snapsave") ELSE InfoToSnapTik(q)

\* a catch block that answers the scraper's failure
InfoScrapeFailedAnswered(q) ==
  RespondInfo([q EXCEPT !.failed = @ \cup {q.provider}], 500, ErrorBody("A"))

\* the catch block of a scraping branch logs and falls through
InfoScrapeFailed(q) ==
  LET f == [q EXCEPT !.failed = @ \cup {q.provider}]
  IN IF q.provider = "snapsave" THEN InfoToSnapTik(f) ELSE InfoToExtractor(f)

\* the request arrives; revisions B and C do not read platform
InfoReceive(b) ==
  /\ vi.pc \in {"idle", "done"}
  /\ LET q == [IdleInfo EXCEPT !.url = b.url,
                               !.platform = IF rev = "A" THEN b.platform ELSE Undefined]
     IN vi' = IF b.url = "" THEN RespondInfo(q, 400, [error |-> "URL diperlukan"])
              ELSE [q EXCEPT !.pc = "resolve"]
  /\ UNCHANGED <<rev, req, fs, net, rr, credentials, oa, sp>>

\* resolveRedirect has returned u
InfoResolved(u) ==
  /\ vi.pc = "resolve"
  /\ u \in ResolvedUrls(vi.url)
  /\ LET q == [vi EXCEPT !.url = u]
     IN vi' = IF rev = "A" THEN InfoToSnapSave(q)
              ELSE IF rev = "C" THEN InfoToExtractor(q)
              ELSE IF ValidUrl(u) THEN [q EXCEPT !.pc = "api"]
              ELSE [q EXCEPT !.pc = "rejected"]
  /\ UNCHANGED <<rev, req, fs, net, rr, credentials, oa, sp>>

\* getSnapSaveVideoInfo / getSnapTikVideoInfo settles
InfoScrapeDone(page, headOk) ==
  /\ vi.pc = "scrape"
  /\ vi' = IF ScrapeThrows(vi.provider, page) THEN InfoScrapeFailed(vi)
           ELSE RespondInfo(vi, 200, ScrapedEnvelope(vi.provider, page, vi.url, headOk))
  /\ UNCHANGED <<rev, req, fs, net, rr, credentials, oa, sp>>

\* youtube.videos.list settles; the client may have refreshed its token
ApiDone(answer, refreshed) ==
  /\ vi.pc = "api"
  /\ LET q == [vi EXCEPT !.auth = credentials]
     IN vi' = IF answer.kind = "fail" THEN RespondInfo(q, 500, ErrorBody(rev))
              ELSE IF answer.kind = "noitems"
                   THEN RespondInfo(q, 404, [error |-> "Video tidak ditemukan"])
                   ELSE InfoToExtractor([q EXCEPT !.item = answer.item])
  /\ credentials' = IF refreshed THEN RefreshedToken ELSE credentials
  /\ UNCHANGED <<rev, req, fs, net, rr, oa, sp>>

\* the --dump-json run settles
InfoExecDone(out, headOk) ==
  /\ vi.pc = "exec"
  /\ LET q == [vi EXCEPT !.data = out.data]
         found == FindPreview("B", out.data.formats)
     IN vi' = IF out.kind # "json"
              THEN RespondInfo([q EXCEPT !.failed = @ \cup {"ytdlp"}], 500, ErrorBody(rev))
              ELSE IF rev = "A"
                   THEN RespondInfo(q, 200, EnvelopeA(out.data, vi.url, vi.platform, headOk))
              ELSE IF rev = "C"
                   THEN RespondInfo(q, 200, EnvelopeC(out.data, vi.url))
              ELSE IF found # <<>> THEN [q EXCEPT !.pc = "preview"]
              ELSE IF vi.item.thumbHigh = Undefined
                   THEN RespondInfo(q, 500, ErrorBody(rev))
                   ELSE RespondInfo(q, 200, EnvelopeB(out.data, vi.url, vi.item, ""))
  /\ UNCHANGED <<rev, req, fs, net, rr, credentials, oa, sp>>

\* revision B: the --get-url run settles; a failure is logged and swallowed
PreviewDone(ok, text) ==
  /\ vi.pc = "preview"
  /\ LET previewUrl == IF ok THEN text ELSE ""
     IN vi' = IF vi.item.thumbHigh = Undefined
              THEN RespondInfo(vi, 500, ErrorBody(rev))
              ELSE RespondInfo(vi, 200, EnvelopeB(vi.data, vi.url, vi.item, previewUrl))
  /\ UNCHANGED <<rev, req, fs, net, rr, credentials, oa, sp>>

\* GET /oauth2callback arrives (revision B)
OAuthReceive(code) ==
  /\ rev = "B"
  /\ oa.pc \in {"idle", "done"}
  /\ oa' = IF code = "" THEN [pc |-> "done", code |-> code, status |-> 400]
           ELSE [pc |-> "token", code |-> code, status |-> 0]
  /\ UNCHANGED <<rev, req, fs, net, rr, vi, credentials, sp>>

\* a callback that stores whatever the exchange came to
TokenCredentialsAlways(ok, tokens, cur) == tokens

\* const { tokens } = await oauth2Client.getToken(code);
\* oauth2Client.setCredentials(tokens)
TokenCredentials(ok, tokens, cur) == IF ok THEN tokens ELSE cur

\* oauth2Client.getToken(code) settles
TokenDone(ok, tokens) ==
  /\ oa.pc = "token"
  /\ credentials' = TokenCredentials(ok, tokens, credentials)
  /\ oa' = [oa EXCEPT !.pc = "done", !.status = IF ok THEN 302 ELSE 500]
  /\ UNCHANGED <<rev, req, fs, net, rr, vi, sp>>

InitInfo ==
  /\ rev \in Revs
  /\ req = NoReqs
  /\ fs = {}
  /\ net = NoNet
  /\ rr = IdleRedirect
  /\ vi = IdleInfo
  /\ credentials = EnvCredentials
  /\ oa = IdleOAuth
  /\ sp = NoPreviews

\* requests of every kind, one after the other, and OAuth callbacks in between
NextInfo ==
  \/ \E b \in InfoBodies : InfoReceive(b)
  \/ \E u \in {UrlYT, UrlTT, UrlOther, UrlRelative} : InfoResolved(u)
  \/ \E page \in ScrapeAnswers, headOk \in BOOLEAN : InfoScrapeDone(page, headOk)
  \/ \E answer \in ApiAnswers, refreshed \in BOOLEAN : ApiDone(answer, refreshed)
  \/ /\ vi.pc = "exec"
     /\ \E out \in ExecOutputs(SampleData), headOk \in BOOLEAN : InfoExecDone(out, headOk)
  \/ \E ok \in BOOLEAN, text \in {"", DirectUrl} : PreviewDone(ok, text)
  \/ \E code \in {"", "c1"} : OAuthReceive(code)
  \/ \E ok \in BOOLEAN, tokens \in Tokens : TokenDone(ok, tokens)

SpecInfo == InitInfo /\ [][NextInfo]_vars

\* one request that goes to the extractor, over every output of the extractor
NextFormats ==
  \/ InfoReceive([url |-> UrlOther, platform |-> Undefined])
  \/ InfoResolved(UrlOther)
  \/ \E answer \in ApiAnswers : ApiDone(answer, FALSE)
  \/ /\ vi.pc = "exec"
     /\ \E out \in ExecOutputs(AllData) : InfoExecDone(out, TRUE)
  \/ \E ok \in BOOLEAN : PreviewDone(ok, DirectUrl)

SpecFormats == InitInfo /\ [][NextFormats]_vars

(***************************************************************************)
(* Properties of POST /api/video-info and GET /oauth2callback              *)
(***************************************************************************)
Answered200 == vi.pc = "done" /\ vi.res.status = 200
FromExtractor == Answered200 /\ vi.provider = "ytdlp"

IsVideo(entry) == entry.type = "video"
IsAudio(entry) == entry.type = "audio"

\* C3 (as claimed): no handler writes what the handler of another request
\* reads, so every call of the metadata provider is made with the credentials
\* the process started with, whatever requests were handled before.
C3_NoSharedMutableState == vi.auth \in {"", EnvCredentials}

\* C3 (amended): the credentials of the shared OAuth client exist, and are
\* read, in revision B only; they change only when a token exchange of
\* GET /oauth2callback has succeeded, to the tokens it obtained, or when the
\* client refreshes its token during videos.list; every other step of every
\* handler, a callback without code or with a failed exchange included,
\* leaves them unchanged.
C3_CredentialsWrittenOnlyByTokenExchange ==
  /\ [](rev # "B" => (credentials = EnvCredentials /\ vi.auth = ""))
  /\ [][credentials' # credentials =>
          \/ oa.pc = "token" /\ oa'.status = 302 /\ credentials' \in Tokens
          \/ vi.pc = "api" /\ credentials' = RefreshedToken]_vars

\* C3 witness: a video-info request has called the metadata provider with the
\* tokens that an earlier OAuth callback stored
C3_Witness ==
  /\ rev = "B" /\ oa.status = 302
  /\ vi.auth \in Tokens /\ vi.auth = credentials
  /\ Answered200

Rank(provider) ==
  IF provider = "snapsave" THEN 1 ELSE IF provider = "snaptik" THEN 2 ELSE 3

\* the providers that apply to the request, once its URL is resolved
Applicable(provider) ==
  IF provider = "snapsave" THEN vi.platform = "youtube" \/ isYouTubeUrl(vi.url)
  ELSE IF provider = "snaptik" THEN vi.platform = "tiktok" \/ isTikTokUrl(vi.url)
  ELSE TRUE

\* C5: revision A tries SnapSave (YouTube requests only), SnapTik (TikTok
\* requests only) and the extractor in this order, each at most once, a later
\* one only after every earlier applicable one has failed; the first success
\* gives the one response, and an error response means the extractor failed.
C5_ProvidersInOrder ==
  rev = "A" =>
    LET t == vi.tried
    IN /\ \A i, j \in 1..Len(t) : i < j => Rank(t[i]) < Rank(t[j])
       /\ \A i \in 1..Len(t) :
            /\ t[i] \in {"snapsave", "snaptik", "ytdlp"}
            /\ Applicable(t[i])
            /\ \A p \in {"snapsave", "snaptik"} :
                 (Rank(p) < Rank(t[i]) /\ Applicable(p)) =>
                   (p \in vi.failed /\ \E k \in 1..(i - 1) : t[k] = p)
       /\ vi.failed \subseteq {t[i] : i \in 1..Len(t)}
       /\ vi.sent <= 1
       /\ Answered200 =>
            /\ vi.sent = 1 /\ t # <<>>
            /\ t[Len(t)] = vi.provider /\ vi.provider \notin vi.failed
            /\ \A i \in 1..(Len(t) - 1) : t[i] \in vi.failed
       /\ vi.res.status \in {0, 200, 400, 500}
       /\ vi.res.status = 400 => t = <<>>
       /\ vi.res.status = 500 => (vi.sent = 1 /\ "ytdlp" \in vi.failed)

\* C5 witness: both scrapers applied and failed, and the extractor answered
C5_Witness ==
  /\ rev = "A" /\ Answered200
  /\ vi.tried = <<"snapsave", "snaptik", "ytdlp">>
  /\ vi.failed = {"snapsave", "snaptik"}

\* the heights of the extractor's formats that pass the video filter
PassingHeights(v, data) ==
  {data.formats[i].height :
     i \in {k \in 1..Len(data.formats) : VideoFilter(v, data.formats[k])}}

\* a finite set of numbers, largest first
RECURSIVE Descending(_)
Descending(S) ==
  IF S = {} THEN <<>>
  ELSE LET m == CHOOSE x \in S : \A y \in S : y <= x
       IN <<m>> \o Descending(S \ {m})

\* C8: the video entries of a response built from extractor output are, in
\* this order, one entry '<height>p' for each height of a format passing the
\* video filter, from the largest height to the smallest.
C8_VideoEntriesByHeight ==
  FromExtractor =>
    LET entries == SelectSeq(vi.res.body.formats, IsVideo)
        heights == Descending(PassingHeights(rev, vi.data))
    IN /\ Len(entries) = Len(heights)
       /\ \A i \in 1..Len(entries) : entries[i].quality = QualityOf(heights[i])

\* C8 witness: three formats pass the filter, two of them of the same height
C8_Witness ==
  /\ FromExtractor
  /\ Len(FilterVideo(rev, vi.data.formats)) = 3
  /\ Len(SelectSeq(vi.res.body.formats, IsVideo)) = 2

\* the positions of the audio candidates in the extractor's list
Candidates(v, data) ==
  {k \in 1..Len(data.formats) : AudioFilter(v, data.formats[k])}

\* candidate i has the largest bit rate, and among those the largest file size
IsBestCandidate(v, data, i) ==
  \A j \in Candidates(v, data) :
    \/ data.formats[j].abr < data.formats[i].abr
    \/ /\ data.formats[j].abr = data.formats[i].abr
       /\ data.formats[j].filesize <= data.formats[i].filesize

\* C9: a response built from extractor output has at most one audio entry; it
\* has one exactly when some format passes the audio filter; the entry is the
\* last of the list, and its size is that of a candidate of maximal bit rate
\* and, among those, maximal file size.
C9_OneBestAudioLast ==
  FromExtractor =>
    LET formats == vi.res.body.formats
        entries == SelectSeq(formats, IsAudio)
    IN /\ Len(entries) <= 1
       /\ (Len(entries) = 1) <=> (Candidates(rev, vi.data) # {})
       /\ entries # <<>> =>
            /\ IsAudio(formats[Len(formats)])
            /\ \E i \in Candidates(rev, vi.data) :
                 /\ IsBestCandidate(rev, vi.data, i)
                 /\ entries[1].size = AudioSize(rev, vi.data.formats[i], vi.data.duration)

\* C9 witness: two candidates of equal bit rate, the smaller file listed
\* first, behind a video entry
C9_Witness ==
  /\ FromExtractor
  /\ Len(vi.res.body.formats) >= 2
  /\ IsAudio(vi.res.body.formats[Len(vi.res.body.formats)])
  /\ \E i, j \in Candidates(rev, vi.data) :
       /\ i < j
       /\ vi.data.formats[i].abr = vi.data.formats[j].abr
       /\ vi.data.formats[i].filesize < vi.data.formats[j].filesize
       /\ IsBestCandidate(rev, vi.data, j)

WellFormedEntry(entry) ==
  /\ entry.quality # Undefined /\ entry.size # Undefined /\ entry.url # Undefined
  /\ entry.type \in {"video", "audio"}
  /\ entry.format = IF entry.type = "audio" THEN "MP3" ELSE "MP4"

WellFormedEnvelope(body) ==
  /\ body.title # Undefined /\ body.thumbnail # Undefined
  /\ body.duration # Undefined /\ body.previewUrl # Undefined
  /\ \A i \in 1..Len(body.formats) : WellFormedEntry(body.formats[i])

\* C10 (as claimed): every 200 response of /api/video-info carries title,
\* thumbnail, duration, previewUrl and formats with defined values, and every
\* entry of formats is well formed.
C10_EnvelopeComplete == Answered200 => WellFormedEnvelope(vi.res.body)

\* revisions A and C answer with complete envelopes, whichever provider answers
EnvelopeCompleteOutsideB == (rev # "B" /\ Answered200) => WellFormedEnvelope(vi.res.body)

\* revision B leaves previewUrl undefined only when there is neither a preview
\* URL nor a thumbnail in the extractor's output
PreviewUndefinedOnlyWithoutThumbnail ==
  (rev = "B" /\ Answered200) =>
    /\ WellFormedEnvelope([vi.res.body EXCEPT !.previewUrl = ""])
    /\ vi.res.body.previewUrl = Undefined => vi.data.thumbnail = Undefined

(***************************************************************************)
(* Further properties of POST /api/download                                *)
(***************************************************************************)
\* the last four characters of a file name
SuffixOf(base) == SubSeq(base, Len(base) - 3, Len(base))

\* the response headers of q are those of a download of q's body
HeadersAsClaimed(q) ==
  /\ q.res.cdisp.kind = "attachment"
  /\ q.res.cdisp.name = encodeURIComponent(sanitizeFilename(rev, q.body.filename))
  /\ q.res.cdisp.ext = (IF q.body.type = "audio" THEN <<46, 109, 112, 51>>
                        ELSE <<46, 109, 112, 52>>)
  /\ q.res.ctype = (IF q.body.type = "audio" THEN "audio/mpeg" ELSE "video/mp4")

\* C11: a response that carries a streamed body carries the attachment
\* disposition with the encoded sanitized name and the extension and media
\* type of the requested type; the headers were set in the state before the
\* first byte; the file being read has the extension the header names.
C11_HeadersBeforeBody ==
  /\ [](\A r \in Reqs :
          /\ req[r].res.body = "stream" => HeadersAsClaimed(req[r])
          /\ req[r].pc = "reading" => SuffixOf(req[r].path.base) = req[r].res.cdisp.ext)
  /\ [][\A r \in Reqs :
          (req[r].res.body # "stream" /\ req'[r].res.body = "stream")
            => HeadersAsClaimed(req[r])]_vars

\* C11 witness: an audio download whose name needed sanitizing and encoding
\* is being streamed from the file
C11_Witness ==
  \E r \in Reqs :
    /\ req[r].pc = "reading" /\ req[r].res.body = "stream"
    /\ req[r].body.type = "audio" /\ req[r].body.filename = NameWithExt
    /\ req[r].res.cdisp.name # req[r].body.filename

\* a response is started once headers are on the wire or a body is piped
Started(q) == q.res.headersSent \/ q.pipes # {}

\* C12 (as claimed): once a response is started, the handler starts no further
\* provider or extractor run for the request and makes no further attempt to
\* set headers, a status code or a JSON body on it.
C12_AtMostOneResponse ==
  [][\A r \in Reqs :
       Started(req[r]) =>
         /\ req'[r].tried = req[r].tried
         /\ req'[r].uncaught = req[r].uncaught
         /\ req'[r].res.status = req[r].res.status
         /\ req'[r].res.ctype = req[r].res.ctype
         /\ req'[r].res.cdisp = req[r].res.cdisp
         /\ req'[r].res.clen = req[r].res.clen
         /\ req'[r].res.body = "json" => req[r].res.body = "json"]_vars

\* revisions B and C start nothing after the response has started; their one
\* late write is the 500 of the read stream's 'error' listener
StartsNothingAfterResponse ==
  [][\A r \in Reqs :
       (rev # "A" /\ Started(req[r])) =>
         /\ req'[r].tried = req[r].tried
         /\ req'[r].res = req[r].res \/ req'[r].res.headersSent]_vars

(***************************************************************************)
(* Validation of the request body, both endpoints side by side             *)
(***************************************************************************)
\* download bodies with any of the four required fields left out
ValidationBodies ==
  [url : {"", UrlYT, UrlOther}, platform : {""}, filename : {NameSpaced, <<>>},
   type : {"", "video"}, quality : {"", "720p"}]

GoodPage ==
  [ok |-> TRUE, title |-> "Clip", thumb |-> "https://img.example/t.jpg",
   duration |-> "00:03:25",
   rows |-> <<[quality |-> "720p", size |-> "10 MB", href |-> "https://cdn.example/v.mp4"]>>]

ClipData ==
  [title |-> "Clip", thumbnail |-> ThumbUrl, webpage_url |-> PageUrl,
   duration |-> 3725, formats |-> <<MuxedMp4(360, 96, 0, 500)>>]

\* one download request and video-info requests, handled side by side
NextValidation ==
  \/ \E b \in ValidationBodies : Receive(1, b)
  \/ \E page \in {GoodPage, FailedPage} : ScrapeDone(1, page)
  \/ \E ok \in BOOLEAN : FetchDone(1, ok)
  \/ UpstreamData(1, "snapsave")
  \/ UpstreamEnd(1, "snapsave")
  \/ ExtractorStep(1)
  \/ \E b \in InfoBodies : InfoReceive(b)
  \/ \E u \in {UrlYT, UrlTT, UrlOther, UrlRelative} : InfoResolved(u)
  \/ \E page \in {GoodPage, FailedPage} : InfoScrapeDone(page, TRUE)
  \/ \E answer \in ApiAnswers : ApiDone(answer, FALSE)
  \/ /\ vi.pc = "exec"
     /\ \E out \in ExecOutputs({ClipData}) : InfoExecDone(out, TRUE)
  \/ \E ok \in BOOLEAN : PreviewDone(ok, DirectUrl)

SpecValidation == Init /\ [][NextValidation]_vars

\* a download handler that has done nothing but answer
NoDownloadEffect(q) ==
  /\ q.tried = <<>> /\ q.exec = "none" /\ ~q.wrote /\ ~q.unlinked
  /\ q.path = NoPath /\ q.pipes = {}

\* a video-info handler that has done nothing but answer
NoInfoEffect(q) ==
  /\ q.tried = <<>> /\ q.auth = "" /\ q.data = NoData /\ q.item = NoItem
  /\ q.url = ""

\* C13: a download body without url, filename, type or quality, and a
\* video-info body without url, is answered 400 with a JSON error in the step
\* in which it arrives, and that step sends no request, starts no subprocess
\* and leaves the downloads directory as it is; no other body is answered so.
C13_RejectedBeforeSideEffects ==
  /\ [](\A r \in Reqs :
          req[r].pc # "idle" =>
            (   (\/ req[r].body.url = "" \/ req[r].body.filename = <<>>
                 \/ req[r].body.type = "" \/ req[r].body.quality = "")
             => /\ req[r].pc = "done" /\ NoDownloadEffect(req[r])
                /\ req[r].res.status = 400 /\ req[r].res.body = "json"))
  /\ [][\A r \in Reqs :
          (req[r].pc = "idle" /\ req'[r].pc = "done") =>
            (req'[r].res.status = 400 /\ fs' = fs)]_vars
  /\ [](vi.res.status = 400 => (vi.pc = "done" /\ NoInfoEffect(vi) /\ vi.sent = 1))
  /\ [][(vi.pc \in {"idle", "done"} /\ vi'.pc # "idle" /\ vi' # vi) =>
          IF vi'.url = ""
          THEN vi'.res.status = 400 /\ vi'.res.body # NoResponse.body /\ fs' = fs
          ELSE vi'.pc = "resolve" /\ vi'.res.status = 0]_vars

\* C13 witness: a download with only quality missing and a video-info request
\* without url have both been answered 400
C13_Witness ==
  /\ req[1].pc = "done" /\ req[1].res.status = 400
  /\ req[1].body.url # "" /\ req[1].body.filename # <<>> /\ req[1].body.type # ""
  /\ req[1].body.quality = ""
  /\ vi.pc = "done" /\ vi.res.status = 400 /\ vi.platform \in {Undefined, "youtube"}

(***************************************************************************)
(* The temporary file of a download                                        *)
(***************************************************************************)
\* the handler of q and its streams have nothing left to do
Finished(q) == q.pc \in {"done", "aborted"}

\* C14 (as claimed): no finished request leaves the file its extractor wrote
\* behind in the downloads directory.
C14_NoFileLeftBehind ==
  \A r \in Reqs : (Finished(req[r]) /\ req[r].wrote) => req[r].path \notin fs

\* the file of a finished request is gone exactly when its read stream ended
FileGoneIffStreamEnded ==
  \A r \in Reqs :
    (Finished(req[r]) /\ req[r].wrote) =>
      (req[r].path \notin fs <=> req[r].streamEnded)

(***************************************************************************)
(* The scraping branches of POST /api/download (revision A)                *)
(***************************************************************************)
LastTried(q) == q.tried[Len(q.tried)]

\* C15 (as claimed): when a scraper succeeds without a format of the requested
\* type and quality, the request ends with 400 and nothing is run after that
\* scraper; when a scraper fails, the handler goes on to the next provider.
C15_NoMatchEnds400 ==
  \A r \in Reqs :
    LET q == req[r]
    IN /\ q.nomatch # {} =>
            /\ q.pc = "done" /\ q.res.status = 400 /\ q.res.body = "json"
            /\ LastTried(q) \in q.nomatch
       /\ \A p \in q.caught \ q.nomatch : p \in {"snapsave", "snaptik"} => LastTried(q) # p

\* the claim holds of every request that only one scraper applies to
NoMatchEnds400WithOneScraper ==
  \A r \in Reqs :
    LET q == req[r]
    IN (q.nomatch # {} /\ Len(q.tried) = 1) =>
         /\ q.pc = "done" /\ q.res.status = 400 /\ q.res.body = "json"
         /\ q.caught = {}

(***************************************************************************)
(* sanitizeFilename over file names of every shape                         *)
(***************************************************************************)
MaxPad == 150

\* file names built from a run of letters (none, or enough for the cut at 150
\* to fall behind or inside what follows), a character that is replaced or
\* deleted (a space, a slash, an emoji), up to two extensions (".mp4", ".MP3")
\* and a last character (DEL, a letter beyond U+FFFF)
SanitizeInputs ==
  LET pad(n) == [i \in 1..n |-> 97]
      pads == {0, MaxPad - 4, MaxPad - 1}
      mids == {<<>>, <<32>>, <<47>>, <<128512>>}
      exts == {<<>>, <<46, 109, 112, 52>>, <<46, 77, 80, 51>>}
      tails == {<<>>, <<127>>, <<119964>>}
  IN {pad(k) \o m \o e1 \o e2 \o t :
        k \in pads, m \in mids, e1 \in exts, e2 \in exts, t \in tails} \ {<<>>}

NameBodies ==
  [url : {UrlOther}, platform : {""}, filename : SanitizeInputs,
   type : {"video"}, quality : {"720p"}]

\* one download through the extractor, over file names of every shape
NextNames ==
  \/ \E b \in NameBodies : Receive(1, b)
  \/ ExtractorStep(1)

SpecNames == Init /\ [][NextNames]_vars

\* the sanitized name that the output path of q was built from
SanitizedOf(q) == SubSeq(q.path.base, 1, Len(q.path.base) - 4)

\* the length of a string in UTF-16 code units
UnitLen(s) == Len(s) + Cardinality({i \in 1..Len(s) : s[i] >= 65536})

EndsInMediaExt(s) ==
  /\ Len(s) >= 4
  /\ s[Len(s) - 3] = 46
  /\ s[Len(s) - 2] \in {109, 77} /\ s[Len(s) - 1] \in {112, 80}
  /\ s[Len(s)] \in {51, 52}

\* at most 150 characters, none of < > : " / \ | ? *, no character below
\* U+0020 and no white space
SafeName(s) ==
  /\ UnitLen(s) <= 150
  /\ \A i \in 1..Len(s) :
       /\ s[i] \notin {60, 62, 58, 34, 47, 92, 124, 63, 42}
       /\ s[i] > 31
       /\ s[i] \notin {32, 160, 5760, 8232, 8233, 8239, 8287, 12288, 65279}
       /\ ~(s[i] >= 8192 /\ s[i] <= 8202)

\* the path names a file directly in the downloads directory
DirectChild(path) ==
  /\ path.dir = "/tmp/downloads"
  /\ \A i \in 1..Len(path.base) : path.base[i] # 47
  /\ path.base \notin {<<>>, <<46>>, <<46, 46>>}

\* C16 (as claimed): the sanitized name is a safe name that does not end in
\* '.mp3' or '.mp4' in any letter case, the output path is a direct child of
\* the downloads directory, and sanitizing the sanitized name changes nothing.
C16_SanitizedNameClean ==
  \A r \in Reqs :
    OnExtractorPath(r) =>
      /\ SafeName(SanitizedOf(req[r]))
      /\ ~EndsInMediaExt(SanitizedOf(req[r]))
      /\ DirectChild(req[r].path)
      /\ sanitizeFilename(rev, SanitizedOf(req[r])) = SanitizedOf(req[r])

\* what does hold: the name is safe and the path a direct child; sanitizing
\* again removes one more extension, if the name ends in one, and nothing else
SanitizedNameSafe ==
  \A r \in Reqs :
    OnExtractorPath(r) =>
      /\ SafeName(SanitizedOf(req[r]))
      /\ DirectChild(req[r].path)
      /\ sanitizeFilename(rev, SanitizedOf(req[r])) =
           IF EndsInMediaExt(SanitizedOf(req[r]))
           THEN SubSeq(SanitizedOf(req[r]), 1, Len(SanitizedOf(req[r])) - 4)
           ELSE SanitizedOf(req[r])

\* a name cut in the middle of a surrogate pair
CutPairReached ==
  \E r \in Reqs :
    /\ OnExtractorPath(r) /\ SanitizedOf(req[r]) # <<>>
    /\ IsSurrogate(SanitizedOf(req[r])[Len(SanitizedOf(req[r]))])

(***************************************************************************)
(* GET /api/stream-preview (part_000)                                      *)
(***************************************************************************)
\* req.query.url as Express hands it over, already decoded once: absent,
\* empty, a URL, and a string with a '%' that decodeURIComponent rejects
UrlMalformed == "https://example.com/100%"
PreviewQueries == {Undefined, "", UrlOther, UrlMalformed}

\* decodeURIComponent(url) throws URIError
DecodeThrows(u) == u = UrlMalformed

\* the Content-Type header of the upstream answer; "" when it has none
UpstreamTypes == {"", "video/mp4", "text/html", "Video/MP4"}
UpstreamAnswers ==
  {[ok |-> FALSE, ctype |-> ""]} \cup [ok : {TRUE}, ctype : UpstreamTypes]

\* response.headers['content-type'] || 'video/mp4'
ContentTypeOf(t) == IF t = "" THEN "video/mp4" ELSE t

\* contentType.includes('video'), on the sample types
IncludesVideo(t) == t = "video/mp4"

\* res.send(string) reflects the charset in a Content-Type that is set and
\* sets text/html otherwise
SetCharset(t) == IF t = "" THEN "text/html; charset=utf-8" ELSE t \o "; charset=utf-8"

\* res.status(code).send(text) where nothing has been written yet
SendText(res, code) ==
  [res EXCEPT !.status = code, !.headersSent = TRUE, !.finished = TRUE,
              !.body = "text", !.ctype = SetCharset(@)]

\* res.status(code).send(text): Express sets Content-Type, which throws once
\* the headers are on the wire; thrown from an event listener the error is an
\* uncaught exception
SendOrThrow(q, code) ==
  IF q.res.headersSent THEN [q EXCEPT !.uncaught = TRUE]
  ELSE [q EXCEPT !.res = SendText(@, code)]

\* an uncaught exception has ended the process
Crashed == \E p \in Previews : sp[p].uncaught

\* the handler up to its first await
PreviewReceive(p, u) ==
  /\ ~Crashed
  /\ sp[p].pc = "idle"
  /\ LET q == [sp[p] EXCEPT !.url = u]
     IN sp' = [sp EXCEPT ![p] =
                 IF ~Truthy(u) THEN [q EXCEPT !.pc = "done", !.res = SendText(@, 400)]
                 ELSE IF DecodeThrows(u)
                      THEN [q EXCEPT !.pc = "done", !.res = SendText(@, 500)]
                      ELSE [q EXCEPT !.pc = "resolving"]]
  /\ UNCHANGED <<rev, req, fs, net, rr, vi, credentials, oa>>

\* resolveRedirect has returned and the GET of the resolved URL is sent
PreviewResolved(p) ==
  /\ ~Crashed
  /\ sp[p].pc = "resolving"
  /\ sp' = [sp EXCEPT ![p] = [@ EXCEPT !.pc = "fetching"]]
  /\ UNCHANGED <<rev, req, fs, net, rr, vi, credentials, oa>>

\* the GET is answered with headers, or fails (network, timeout, status)
PreviewUpstream(p, ans) ==
  /\ ~Crashed
  /\ sp[p].pc = "fetching"
  /\ LET q == [sp[p] EXCEPT !.upstream = IF ans.ok THEN "ok" ELSE "failed",
                            !.ctype = ans.ctype]
     IN sp' = [sp EXCEPT ![p] =
                 IF ~ans.ok THEN [q EXCEPT !.pc = "done", !.res = SendText(@, 500)]
                 ELSE IF ~IncludesVideo(ContentTypeOf(ans.ctype))
                      THEN [q EXCEPT !.pc = "done", !.res = SendText(@, 400)]
                      ELSE [q EXCEPT !.pc = "piping",
                                     !.res.ctype = ContentTypeOf(ans.ctype)]]
  /\ UNCHANGED <<rev, req, fs, net, rr, vi, credentials, oa>>

\* response.data.pipe(res) delivers the first chunk
PreviewData(p) ==
  /\ ~Crashed
  /\ sp[p].pc = "piping" /\ ~sp[p].res.headersSent
  /\ sp' = [sp EXCEPT ![p] = [@ EXCEPT !.res = WriteChunk(@)]]
  /\ UNCHANGED <<rev, req, fs, net, rr, vi, credentials, oa>>

\* the upstream body ends and pipe() ends the response
PreviewEnd(p) ==
  /\ ~Crashed
  /\ sp[p].pc = "piping"
  /\ sp' = [sp EXCEPT ![p] = [@ EXCEPT !.pc = "done", !.res = EndByPipe(@)]]
  /\ UNCHANGED <<rev, req, fs, net, rr, vi, credentials, oa>>

\* response.data emits 'error': the listener answers 500
PreviewStreamError(p) ==
  /\ ~Crashed
  /\ sp[p].pc = "piping"
  /\ sp' = [sp EXCEPT ![p] =
              [SendOrThrow(@, 500) EXCEPT !.pc = "done", !.streamError = TRUE]]
  /\ UNCHANGED <<rev, req, fs, net, rr, vi, credentials, oa>>

InitPreview ==
  /\ rev = "C"
  /\ req = NoReqs
  /\ fs = {}
  /\ net = NoNet
  /\ rr = IdleRedirect
  /\ vi = IdleInfo
  /\ credentials = EnvCredentials
  /\ oa = IdleOAuth
  /\ sp = NoPreviews

NextPreview ==
  \/ \E p \in Previews, u \in PreviewQueries : PreviewReceive(p, u)
  \/ \E p \in Previews : PreviewResolved(p)
  \/ \E p \in Previews, ans \in UpstreamAnswers : PreviewUpstream(p, ans)
  \/ \E p \in Previews : PreviewData(p)
  \/ \E p \in Previews : PreviewEnd(p)
  \/ \E p \in Previews : PreviewStreamError(p)

SpecPreview == InitPreview /\ [][NextPreview]_vars

\* the status each case of the handler is claimed to answer with
PreviewStatusAsClaimed(q) ==
  /\ (q.pc # "idle" /\ ~Truthy(q.url)) =>
       q.res.finished /\ q.res.status = 400 /\ q.upstream = "none"
  /\ (q.upstream = "ok" /\ q.ctype # "" /\ ~IncludesVideo(q.ctype)) =>
       q.res.finished /\ q.res.status = 400 /\ q.res.body = "text"
  /\ q.upstream = "failed" => q.res.finished /\ q.res.status = 500
  /\ (q.upstream = "ok" /\ IncludesVideo(q.ctype) /\ ~q.streamError /\ q.res.headersSent) =>
       q.res.status = 200 /\ q.res.body = "stream" /\ q.res.ctype = q.ctype

\* a request that was received and has no answer
Unanswered(q) == q.pc # "idle" /\ ~q.res.headersSent

\* C17 (as claimed): every request of /api/stream-preview is answered exactly
\* once, with 400 when url is missing, 400 and nothing piped when the upstream
\* Content-Type lacks 'video', 500 when the upstream request fails and the
\* piped body under the upstream Content-Type otherwise; a stream error after
\* piping has begun sends nothing more, so no listener throws on a started
\* response and the server does not end with a request left unanswered.
C17_PreviewAnsweredOnce ==
  /\ \A p \in Previews : PreviewStatusAsClaimed(sp[p])
  /\ \A p \in Previews : ~sp[p].uncaught
  /\ Crashed => \A p \in Previews : ~Unanswered(sp[p])

\* what does hold: each case gets the status claimed for it
PreviewStatuses == \A p \in Previews : PreviewStatusAsClaimed(sp[p])

\* what does hold: the status and the kind of body on the wire never change
PreviewWireStable ==
  [][\A p \in Previews :
       sp[p].res.headersSent =>
         /\ sp'[p].res.headersSent
         /\ sp'[p].res.status = sp[p].res.status
         /\ sp'[p].res.body = sp[p].res.body
         /\ sp'[p].res.ctype = sp[p].res.ctype]_vars

(***************************************************************************)
(* The duration field over durations of every size                         *)
(***************************************************************************)
\* seconds: none, under a minute, over an hour, the last second of a day, a
\* day, a day and an hour
DurationSamples == {0, 59, 3725, 86399, 86400, 90000}

\* outputs whose formats carry their size, so that no size is estimated
DurationData ==
  [title : {Undefined, "Clip"}, thumbnail : {Undefined, ThumbUrl},
   webpage_url : {Undefined, PageUrl}, duration : DurationSamples,
   formats : {<<>>, <<MuxedMp4(360, 96, 10485760, 0)>>}]

\* one request that goes to the extractor, over outputs of every duration
NextDurations ==
  \/ InfoReceive([url |-> UrlOther, platform |-> Undefined])
  \/ InfoResolved(UrlOther)
  \/ \E answer \in ApiAnswers : ApiDone(answer, FALSE)
  \/ /\ vi.pc = "exec"
     /\ \E out \in ExecOutputs(DurationData) : InfoExecDone(out, TRUE)
  \/ \E ok \in BOOLEAN : PreviewDone(ok, DirectUrl)

SpecDurations == InitInfo /\ [][NextDurations]_vars

\* hours, minutes and seconds of d seconds, the hours not reduced
HoursMinutesSeconds(d) ==
  Pad2(d \div 3600) \o ":" \o Pad2((d \div 60) % 60) \o ":" \o Pad2(d % 60)

\* the response was built from the extractor's duration alone
DurationFromExtractor == FromExtractor /\ rev \in {"A", "C"}

\* C18 (as claimed): on the extractor path the duration field is HH:MM:SS of
\* the extractor's duration in seconds, with hours = duration div 3600 not
\* reduced modulo 24, and it is '00:00:00' exactly when the duration is 0 or
\* missing.
C18_DurationIsHoursMinutesSeconds ==
  DurationFromExtractor =>
    /\ vi.res.body.duration = HoursMinutesSeconds(vi.data.duration)
    /\ vi.res.body.duration = "00:00:00" <=> vi.data.duration = 0

\* what does hold: the field is the time of day of the duration, which is the
\* duration itself below 24 hours
DurationIsTimeOfDay ==
  DurationFromExtractor =>
    vi.res.body.duration = HoursMinutesSeconds(vi.data.duration % (24 * 3600))

=============================================================================
